---- MODULE Spec2Model ----
(***************************************************************************)
(* @cldmv/wisp: caller-relative location resolution                        *)
(* (src/lib/resolve-from-caller.mjs) and the tiered JSON loader            *)
(* (src/wisp.mjs: wisp, wispSync).                                         *)
(*                                                                         *)
(* Paths, URLs and messages are sequences of strings:                      *)
(*   an absolute path   <<"/", "app", "a.json">>                           *)
(*   a relative path    <<".", "a.json">>                                  *)
(*   a file URL (href)  <<"file://", "/", "app", "a.json">>                *)
(*   an absent value (undefined / null / "")  <<>>                         *)
(***************************************************************************)
EXTENDS Integers, Sequences, FiniteSets, TLC

VARIABLES fs, manifests, PACKAGE_ROOT, host, req, heap, registry, calls, running, hook, res

vars == <<fs, manifests, PACKAGE_ROOT, host, req, heap, registry, calls, running, hook, res>>

\* ---------------------------------------------------------------- bounds
MaxCalls == 2
MaxDepth == 2

\* ------------------------------------------------- node:path / node:url
Absent == <<>>

isAbsolute(p) == p # <<>> /\ Head(p) = "/"

startsWithFileScheme(s) == s # <<>> /\ Head(s) = "file://"

dirname(p) == IF Len(p) <= 1 THEN p ELSE SubSeq(p, 1, Len(p) - 1)

pathToFileURL(p) == <<"file://">> \o p

fileURLToPath(u) == Tail(u)

RECURSIVE pathResolve(_, _)
pathResolve(dir, r) ==
  IF r = <<>> THEN dir
  ELSE IF Head(r) = "." THEN pathResolve(dir, Tail(r))
  ELSE IF Head(r) = ".." THEN pathResolve(dirname(dir), Tail(r))
  ELSE pathResolve(dir \o <<Head(r)>>, Tail(r))

\* new URL(r, baseUrl).href for a relative reference r
newURL(r, baseUrl) == pathToFileURL(pathResolve(dirname(fileURLToPath(baseUrl)), r))

\* ------------------------------------------------------ files and frames
THIS_FILE == <<"/", "pkg", "src", "lib", "resolve-from-caller.mjs">>
WISP_FILE == <<"/", "pkg", "src", "wisp.mjs">>
USER_FILE == <<"/", "app", "main.mjs">>
NODE_LOADER_FRAME == <<"node:internal", "modules", "esm", "module_job">>
NODE_TASK_FRAME == <<"node:internal", "process", "task_queues">>
INDEX_FILE == <<"/", "pkg", "index.mjs">>
ENTRY_FILE == <<"/", "pkg", "main.mjs">>
DIST_FILE == <<"/", "pkg", "dist", "wisp.mjs">>
USER_FILE_URL == <<"file://", "/", "app", "main.mjs">>

\* directories that hold a package.json
ManifestDirs == manifests

PrimaryPath == <<"/", "app", "a.json">>
FallbackPath == <<"/", "app", "b.json">>

\* a value of the base option, and the file ./a.json names relative to it
BASE_URL == <<"file://", "/", "app", "conf", "base.json">>
BasedPath == <<"/", "app", "conf", "a.json">>

Locations ==
  {PrimaryPath, FallbackPath, BasedPath,
   <<"/", "pkg", "src", "a.json">>, <<"/", "pkg", "src", "b.json">>}

Missing == [st |-> "missing", foo |-> ""]
Invalid == [st |-> "invalid", foo |-> ""]
DocBar == [st |-> "ok", foo |-> "bar"]
DocBaz == [st |-> "ok", foo |-> "baz"]

existsSync(p) == p \in DOMAIN fs /\ fs[p].st # "missing"

contentAt(p) == IF p \in DOMAIN fs THEN fs[p] ELSE Missing

\* ---------------------------------------------- resolve-from-caller.mjs
toFsPath(v) ==
  IF v # <<>> /\ startsWithFileScheme(v) THEN fileURLToPath(v)
  ELSE IF v # <<>> THEN v
  ELSE Absent

RECURSIVE findPackageRoot(_)
findPackageRoot(currentPath) ==
  IF currentPath = dirname(currentPath) THEN Absent
  ELSE IF currentPath \in ManifestDirs THEN currentPath
  ELSE findPackageRoot(dirname(currentPath))

\* the package boundary looked up again at every run of the selector
\* (mutant of cachedPackageRoot)
cachedPackageRootRecomputed(root, dirs) ==
  LET A == {k \in 2..Len(THIS_FILE) : SubSeq(THIS_FILE, 1, k) \in dirs}
  IN IF A = {} THEN Absent ELSE SubSeq(THIS_FILE, 1, CHOOSE k \in A : \A j \in A : j <= k)

\* line 151: const PACKAGE_ROOT, the value a run of the selector reads and
\* leaves, whatever directories hold a package.json by then
cachedPackageRoot(root, dirs) == root

getStack(stack) == stack

isPrefix(p, f) == Len(f) >= Len(p) /\ SubSeq(f, 1, Len(p)) = p

\* f.startsWith(PACKAGE_ROOT + path.sep)
inPackage(f) == PACKAGE_ROOT # Absent /\ Len(f) > Len(PACKAGE_ROOT) /\ isPrefix(PACKAGE_ROOT, f)

\* path.relative(PACKAGE_ROOT, f).split(path.sep)
segments(f) == SubSeq(f, Len(PACKAGE_ROOT) + 1, Len(f))

IndexNames == {"index.mjs", "index.cjs", "index.js", "index.ts"}

\* only src/ counted as the library's tree (mutant of currentIsInSrcOrDist)
currentIsInSrcOrDistSrcOnly(f) == inPackage(f) /\ segments(f)[1] = "src"

currentIsInSrcOrDist(f) == inPackage(f) /\ segments(f)[1] \in {"src", "dist"}

currentIsIndex(f) == inPackage(f) /\ Len(segments(f)) = 1 /\ segments(f)[1] \in IndexNames

\* node:internal frames scanned like any other (mutant of skippedFrame)
skippedFrameKeepsInternal(cs) ==
  LET f == toFsPath(cs)
  IN f = Absent \/ f = THIS_FILE

skippedFrame(cs) ==
  LET f == toFsPath(cs)
  IN f = Absent \/ Head(f) = "node:internal" \/ f = THIS_FILE

RECURSIVE primaryScan(_, _, _, _, _)
\* a frame returned only once both flags are set (mutant of primaryStep)
primaryStepNeedsBothFlags(f, rest, exS, exI, inSrc, isIdx) ==
  IF exS /\ exI THEN f ELSE primaryScan(rest, exS, exI, inSrc, isIdx)

\* lines 195-227: one iteration of the loop on a frame that is not skipped
primaryStep(f, rest, exS, exI, inSrc, isIdx) ==
  IF exS THEN f ELSE primaryScan(rest, exS, exI, inSrc, isIdx)

primaryScan(stack, exitedSrcOrDist, exitedIndex, previousWasInSrcOrDist, previousWasIndex) ==
  IF stack = <<>> THEN Absent
  ELSE IF skippedFrame(Head(stack))
    THEN primaryScan(Tail(stack), exitedSrcOrDist, exitedIndex,
                     previousWasInSrcOrDist, previousWasIndex)
  ELSE primaryStep(toFsPath(Head(stack)), Tail(stack),
         exitedSrcOrDist
           \/ (previousWasInSrcOrDist /\ ~currentIsInSrcOrDist(toFsPath(Head(stack)))),
         exitedIndex \/ (previousWasIndex /\ ~currentIsIndex(toFsPath(Head(stack)))),
         currentIsInSrcOrDist(toFsPath(Head(stack))),
         currentIsIndex(toFsPath(Head(stack))))

pickPrimaryBaseFile(stack) == primaryScan(getStack(stack), FALSE, FALSE, FALSE, FALSE)

\* null when no frame qualifies (mutant of fallbackScan)
RECURSIVE fallbackScanToNull(_)
fallbackScanToNull(stack) ==
  IF stack = <<>> THEN Absent
  ELSE IF skippedFrame(Head(stack)) THEN fallbackScanToNull(Tail(stack))
  ELSE toFsPath(Head(stack))

RECURSIVE fallbackScan(_)
fallbackScan(stack) ==
  IF stack = <<>> THEN THIS_FILE
  ELSE IF skippedFrame(Head(stack)) THEN fallbackScan(Tail(stack))
  ELSE toFsPath(Head(stack))

pickFallbackBaseFile(stack) == fallbackScan(getStack(stack))

\* pickPrimaryBaseFile() ?? pickFallbackBaseFile()
orFallback(picked, stack) == IF picked # Absent THEN picked ELSE pickFallbackBaseFile(stack)

\* lines 323-327 with the URL-mode makePrimary / exists / makeFallback
resolveCandidate(primary, rel, stack) ==
  IF existsSync(fileURLToPath(primary)) THEN primary
  ELSE newURL(rel, pathToFileURL(pickFallbackBaseFile(stack)))

resolveWith(rel, stack) ==
  resolveCandidate(
    newURL(rel, pathToFileURL(orFallback(pickPrimaryBaseFile(stack), stack))), rel, stack)

resolveUrlFromCaller(rel, stack) ==
  IF startsWithFileScheme(rel) THEN rel
  ELSE IF isAbsolute(rel) THEN pathToFileURL(rel)
  ELSE resolveWith(rel, stack)

\* ------------------------------- the resolver called with any reference
\* A reference that is not a string is a sequence that starts with a tag:
\* a number, null / undefined, or a String object (whose characters follow
\* the tag).
NUMBER_REF == <<"#number">>
NULL_REF == <<"#null">>
STRING_OBJECT == "#String"

typeofString(rel) == rel = <<>> \/ Head(rel) \notin {"#number", "#null", STRING_OBJECT}

\* rel.startsWith?.("file://"): undefined for a value without the method
startsWithCall(rel) ==
  IF typeofString(rel) THEN startsWithFileScheme(rel)
  ELSE Head(rel) = STRING_OBJECT /\ startsWithFileScheme(Tail(rel))

\* no resolver call has been made
NoCall ==
  [mode |-> "none", rel |-> Absent, stack |-> <<>>, out |-> Absent, threw |-> "",
   sampled |-> 0, checked |-> FALSE, hookBefore |-> ""]

\* the call returned out after sampled calls of getStack
Resolved(out, sampled, checked) == [out |-> out, threw |-> "", sampled |-> sampled, checked |-> checked]

\* the call threw a TypeError
Rejected(sampled, checked) ==
  [out |-> Absent, threw |-> "TypeError", sampled |-> sampled, checked |-> checked]

\* makePrimary / makeFallback of the two modes
makeCandidate(mode, baseFile, r) ==
  IF mode = "path" THEN pathResolve(dirname(baseFile), r) ELSE newURL(r, pathToFileURL(baseFile))

\* exists of the two modes
candidateExists(mode, candidate) ==
  IF mode = "path" THEN existsSync(candidate) ELSE existsSync(fileURLToPath(candidate))

\* the fallback candidate built only when it is found on the filesystem
\* (mutant of resolveWithCandidate)
resolveWithCandidateChecksFallback(mode, rel, stack, primary, sampled) ==
  IF candidateExists(mode, primary) THEN Resolved(primary, sampled, TRUE)
  ELSE IF candidateExists(mode, makeCandidate(mode, pickFallbackBaseFile(stack), rel))
    THEN Resolved(makeCandidate(mode, pickFallbackBaseFile(stack), rel), sampled + 1, TRUE)
  ELSE Rejected(sampled + 1, TRUE)

\* lines 324-327: the primary candidate if it exists, else the fallback one
resolveWithCandidate(mode, rel, stack, primary, sampled) ==
  IF candidateExists(mode, primary) THEN Resolved(primary, sampled, TRUE)
  ELSE Resolved(makeCandidate(mode, pickFallbackBaseFile(stack), rel), sampled + 1, TRUE)

\* lines 322-323: the primary base, sampled once or twice
resolveWithBase(mode, rel, stack, picked) ==
  resolveWithCandidate(mode, rel, stack, makeCandidate(mode, orFallback(picked, stack), rel),
                       IF picked = Absent THEN 2 ELSE 1)

\* lines 318-328 with what the call sampled and checked
resolveWithTraced(mode, rel, stack) ==
  IF ~typeofString(rel) THEN Rejected(0, FALSE)
  ELSE resolveWithBase(mode, rel, stack, pickPrimaryBaseFile(stack))

\* every string reference handed to resolveWith (mutant of
\* resolvePathFromCaller)
resolvePathFromCallerAlwaysSamples(rel, stack) ==
  IF rel = NULL_REF THEN Rejected(0, FALSE)
  ELSE IF ~typeofString(rel) THEN Rejected(0, FALSE)
  ELSE resolveWithTraced("path", rel, stack)

\* lines 377-391
resolvePathFromCaller(rel, stack) ==
  IF rel = NULL_REF THEN Rejected(0, FALSE)
  ELSE IF startsWithCall(rel)
    THEN (IF typeofString(rel) THEN Resolved(fileURLToPath(rel), 0, FALSE)
          ELSE Rejected(0, FALSE))
  ELSE IF ~typeofString(rel) THEN Rejected(0, FALSE)
  ELSE IF isAbsolute(rel) THEN Resolved(rel, 0, FALSE)
  ELSE resolveWithTraced("path", rel, stack)

\* lines 439-453 with what the call sampled and checked
resolveUrlFromCallerTraced(rel, stack) ==
  IF rel = NULL_REF THEN Rejected(0, FALSE)
  ELSE IF startsWithCall(rel) THEN Resolved(rel, 0, FALSE)
  ELSE IF ~typeofString(rel) THEN Rejected(0, FALSE)
  ELSE IF isAbsolute(rel) THEN Resolved(pathToFileURL(rel), 0, FALSE)
  ELSE resolveWithTraced("url", rel, stack)

\* Error.prepareStackTrace after the finally block of getStack left alone
\* when an exception escapes (mutant of restoreHook)
restoreHookOnReturn(orig, current, threw) == IF threw THEN current ELSE orig

\* getStack without the finally block: the override stays installed
\* (mutant of restoreHook)
restoreHookKeepsOverride(orig, current, threw) == current

\* lines 130-131: finally { Error.prepareStackTrace = orig }
restoreHook(orig, current, threw) == orig

\* lines 124-132: Error.prepareStackTrace after one call of getStack
getStackHook(h, threw) == restoreHook(h, "override", threw)

\* Error.prepareStackTrace after n calls of getStack that return
RECURSIVE hookAfter(_, _)
hookAfter(h, n) == IF n = 0 THEN h ELSE hookAfter(getStackHook(h, FALSE), n - 1)

\* ------------------------------------------------------------- wisp.mjs
Prefix == "@cldmv/wisp: "

WrapMsg(e) == <<Prefix>> \o e

\* the message built without the location (mutant of LoadFailedMsg)
LoadFailedMsgWithoutLocation(url, e) == <<"@cldmv/wisp: Failed to load JSON file: ">> \o e

LoadFailedMsg(url, e) == <<"@cldmv/wisp: Failed to load JSON file at ">> \o url \o <<": ">> \o e

\* the message built without the declared type (mutant of UnsupportedMsg)
UnsupportedMsgWithoutType(type, url) ==
  <<"@cldmv/wisp: Unsupported type or failed to load module at ">> \o url

UnsupportedMsg(type, url) ==
  <<"@cldmv/wisp: Unsupported type '", type, "' or failed to load module at ">> \o url

\* the reviver of the request applied by JSON.parse to a document: fooMod
\* maps key foo to a fixed string, fooTag maps it to an instance of a class
Revive(reviver, doc) ==
  IF reviver = "fooMod" THEN [foo |-> "mod"]
  ELSE IF reviver = "fooTag" THEN [foo |-> "Tag instance"]
  ELSE doc

\* the message of the error validate(val) throws, Absent when it returns
ValidateErr(validate, doc) ==
  IF validate = "needBar" /\ doc.foo # "bar" THEN <<"need bar">> ELSE Absent

\* lines 48-50: deepClone(v), by structuredClone or by a JSON round trip:
\* the copy of a class instance is a plain object
deepClone(v) == IF v.foo = "Tag instance" THEN [foo |-> "plain object"] ELSE v

\* a new object holding v
stored(h, v) == [heap |-> Append(h, v), obj |-> Len(h) + 1]

\* A URL object is a sequence that starts with the tag "#URL", its href
\* following.
URL_OBJECT == "#URL"

\* input instanceof URL
instanceofURL(v) == v # <<>> /\ Head(v) = URL_OBJECT

\* String(input): the digits of a number, "null", the characters of a
\* String object
StringOf(v) ==
  IF v = NUMBER_REF THEN <<"42">>
  ELSE IF v = NULL_REF THEN <<"null">>
  ELSE IF v # <<>> /\ Head(v) = STRING_OBJECT THEN Tail(v)
  ELSE v

\* the TypeError of the URL constructor
INVALID_URL == <<"#TypeError", "Invalid URL">>

\* the TypeError of resolveWith
REL_MUST_BE_STRING == <<"#TypeError", "rel must be a string">>

locateThrew(u) == u # <<>> /\ Head(u) = "#TypeError"

\* new URL(s) succeeds: a file URL with a path
urlParses(s) == Len(s) >= 2 /\ s[1] = "file://" /\ s[2] = "/"

\* new URL(s).href
parseURL(s) == IF urlParses(s) THEN s ELSE INVALID_URL

\* new URL(s, new URL(base)).href
parseURLWithBase(s, base) == IF urlParses(base) THEN newURL(s, base) ELSE INVALID_URL

\* the base option consulted before the form of the string (mutant of
\* locate)
locateBaseFirst(s, base, stack) ==
  IF base # Absent THEN parseURLWithBase(s, base)
  ELSE IF startsWithFileScheme(s) THEN parseURL(s)
  ELSE IF isAbsolute(s) THEN pathToFileURL(s)
  ELSE resolveUrlFromCaller(s, stack)

\* lines 78-81 / 162-165: the location the string s names
locate(s, base, stack) ==
  IF startsWithFileScheme(s) THEN parseURL(s)
  ELSE IF isAbsolute(s) THEN pathToFileURL(s)
  ELSE IF base # Absent THEN parseURLWithBase(s, base)
  ELSE resolveUrlFromCaller(s, stack)

\* the location computed from the caller's stack whether or not a base is
\* supplied (mutant of ComputeUrl)
ComputeUrlIgnoresBase(input, base, stack) ==
  IF instanceofURL(input) THEN Tail(input) ELSE locate(StringOf(input), Absent, stack)

\* the input handed to the resolver as it is, without String() (mutant of
\* ComputeUrl)
ComputeUrlUncoerced(input, base, stack) ==
  IF instanceofURL(input) THEN Tail(input)
  ELSE IF resolveUrlFromCallerTraced(input, stack).threw # "" THEN REL_MUST_BE_STRING
  ELSE locate(StringOf(input), base, stack)

\* lines 74-82 / 158-166: the location to load
ComputeUrl(input, base, stack) ==
  IF instanceofURL(input) THEN Tail(input) ELSE locate(StringOf(input), base, stack)

\* the calls of getStack made to locate the string s
locateSampled(s, base, stack) ==
  IF startsWithFileScheme(s) \/ isAbsolute(s) \/ base # Absent THEN 0
  ELSE resolveUrlFromCallerTraced(s, stack).sampled

\* lines 74-82 / 158-166: the calls of getStack made to compute the location
ComputeSampled(input, base, stack) ==
  IF instanceofURL(input) THEN 0 ELSE locateSampled(StringOf(input), base, stack)

\* the frames below pickPrimaryBaseFile when invocation number depth of the
\* loader resolves its reference without having suspended
SyncStack(callerFrames, depth) ==
  <<THIS_FILE, THIS_FILE>> \o [i \in 1..(depth + 1) |-> WISP_FILE] \o callerFrames

\* the frames when a resumed wisp re-dispatches: the new invocation, the
\* resumed one, the awaiting caller when the engine reconstructs it
AsyncStack(callerFrames, visible) ==
  <<THIS_FILE, THIS_FILE, WISP_FILE, WISP_FILE>>
    \o (IF visible THEN <<Head(callerFrames)>> ELSE <<>>) \o <<NODE_TASK_FRAME>>

\* import(url.href, { with | assert : { type } })
importSucceeds(url, syntax, type) ==
  LET loc == fileURLToPath(url)
  IN /\ IF syntax = "with" THEN host.with ELSE host.assert
     /\ type = "json" \/ host.other
     /\ loc \in DOMAIN registry
     /\ registry[loc] # 0 \/ contentAt(loc).st = "ok"

\* the heap and registry after a successful import: the module is
\* evaluated once and then served from the registry
importLoad(url) ==
  LET loc == fileURLToPath(url)
  IN IF registry[loc] # 0 THEN [heap |-> heap, registry |-> registry]
     ELSE [heap |-> Append(heap, [foo |-> contentAt(loc).foo]),
           registry |-> [registry EXCEPT ![loc] = Len(heap) + 1]]

Outcome(ok, h, obj, err, validated) ==
  [ok |-> ok, heap |-> h, obj |-> obj, err |-> err, validated |-> validated]

\* lines 89-96 / 118-125: validate(val) on the value val cloned into cl
validated(h, cl, e) ==
  IF req.validate = "none" THEN Outcome(TRUE, cl.heap, cl.obj, Absent, FALSE)
  ELSE IF e # Absent THEN Outcome(FALSE, h, 0, WrapMsg(e), TRUE)
  ELSE Outcome(TRUE, cl.heap, cl.obj, Absent, TRUE)

\* lines 89-96 / 118-125: the value val the strategy built, validated
revived(h, val) == validated(h, stored(h, val), ValidateErr(req.validate, val))

\* lines 86-96 / 101-111: what a strategy does with the imported module
afterImport(h, modObj) ==
  IF req.reviver = "none" /\ req.validate = "none"
    THEN Outcome(TRUE, h, modObj, Absent, FALSE)
  ELSE revived(h, Revive(req.reviver, deepClone(h[modObj])))

\* lines 116-117 / 169-170: readFile and JSON.parse(txt, reviver)
parsed(h, c) ==
  IF c.st = "missing" THEN Outcome(FALSE, h, 0, <<"ENOENT">>, FALSE)
  ELSE IF c.st = "invalid" THEN Outcome(FALSE, h, 0, <<"SyntaxError">>, FALSE)
  ELSE revived(h, deepClone(Revive(req.reviver, [foo |-> c.foo])))

\* lines 116-125 / 169-178: read the target as text, parse, clone, validate
rawRead(h, url) == parsed(h, contentAt(fileURLToPath(url)))

\* the log of a call: what it did, in order, and in which invocation
Ev(name, c) == [ev |-> name, d |-> c.depth, info |-> ""]

EvInfo(name, c, info) == [ev |-> name, d |-> c.depth, info |-> info]

ValidateEvs(out, c) ==
  IF out.validated THEN <<EvInfo("validate", c, IF out.ok THEN "returned" ELSE "threw")>>
  ELSE <<>>

\* the catch of the raw read: what it caught
ReadErrEv(out, c) == EvInfo("readErr", c, IF out.validated THEN "validate" ELSE out.err[1])

\* ------------------------------------------------- state and environment
\* the values Error.prepareStackTrace holds before a call
Hooks == {"unset", "userHook"}

\* the host runtime: which import syntaxes it accepts, and whether it can
\* import a module of a type other than json
Hosts == [with : BOOLEAN, assert : BOOLEAN, other : BOOLEAN]

\* the reference and the options every call of a behaviour is made with
Requests ==
  [input : {PrimaryPath, <<".", "a.json">>},
   base : {Absent, BASE_URL},
   validate : {"none", "needBar"},
   reviver : {"none", "fooMod", "fooTag"},
   type : {"json", "css"},
   fallback : {Absent, FallbackPath, <<".", "b.json">>}]

CallerStacks == {<<USER_FILE, NODE_LOADER_FRAME>>}

FileSystems ==
  {[l \in Locations |-> IF l = PrimaryPath THEN a ELSE IF l = FallbackPath THEN b
                         ELSE IF l = BasedPath THEN DocBar ELSE Missing] :
     a \in {Missing, Invalid, DocBar, DocBaz}, b \in {Missing, DocBar, DocBaz}}

Init ==
  /\ fs \in FileSystems
  /\ manifests = {<<"/", "pkg">>, <<"/", "app">>}
  /\ PACKAGE_ROOT = findPackageRoot(THIS_FILE)
  /\ host \in Hosts
  /\ req \in Requests
  /\ req.type = "json" => ~host.other
  /\ req.fallback = Absent => fs[FallbackPath] = Missing
  /\ req.fallback # Absent => isAbsolute(req.fallback) = isAbsolute(req.input)
  /\ req.base # Absent => ~isAbsolute(req.input)
  /\ heap = <<>>
  /\ registry = [l \in Locations |-> 0]
  /\ calls = <<>>
  /\ running = 0
  /\ hook = "unset"
  /\ res = NoCall

\* the number of calls that have neither returned nor thrown
InFlight == Cardinality({j \in 1..Len(calls) : calls[j].pc \notin {"done", "failed"}})

NewCall(api, callerFrames) ==
  [api |-> api, frames |-> callerFrames, depth |-> 0, pc |-> "new", url |-> Absent,
   targets |-> <<>>, sampled |-> 0, result |-> 0, value |-> [foo |-> ""], err |-> Absent, log |-> <<>>]

\* the invocation has computed the location u it loads, with n calls of
\* getStack
Located(c, u, n) ==
  [c EXCEPT !.url = u, !.targets = Append(c.targets, u), !.sampled = c.sampled + n]

\* the call returns the object obj
Returned(c, out, evs) ==
  [c EXCEPT !.pc = "done", !.result = out.obj, !.value = out.heap[out.obj],
            !.log = c.log \o evs]

\* the call throws / rejects with message e
Thrown(c, e, evs) ==
  [c EXCEPT !.pc = "failed", !.err = e, !.log = c.log \o evs]

\* return wisp(fallback, options) / return wispSync(fallback, options)
Redispatch(c, pc, evs) ==
  [c EXCEPT !.depth = c.depth + 1, !.pc = pc,
            !.log = c.log \o evs \o <<[ev |-> "fallback", d |-> c.depth + 1, info |-> ""]>>]

\* the failure to compute the location handled like a failed read:
\* redirected to the fallback reference when there is one (mutant of
\* locateFailed)
locateFailedRetries(c, u) ==
  IF req.fallback # Absent
    THEN Redispatch(c, IF c.api = "wispSync" THEN "sync" ELSE "new", <<EvInfo("readErr", c, "locate")>>)
  ELSE Thrown(c, u, <<>>)

\* lines 74-82 / 158-166 lie outside every try block: the TypeError of
\* new URL leaves the invocation at once
locateFailed(c, u) == Thrown(c, u, <<>>)

\* ------------------------------------------------------------- wispSync
\* the retry invoked without the fallback option, so that its failure is
\* thrown (mutant of wispSyncCatch)
wispSyncCatchRetryWithoutFallback(c, out, evs) ==
  IF out.ok THEN [call |-> Returned(c, out, evs \o <<Ev("readOk", c)>>), heap |-> out.heap]
  ELSE IF req.fallback # Absent /\ c.depth = 0
    THEN [call |-> Redispatch(c, "sync", evs \o <<ReadErrEv(out, c)>>), heap |-> heap]
  ELSE [call |-> Thrown(c, LoadFailedMsg(c.url, out.err), evs \o <<ReadErrEv(out, c)>>),
        heap |-> heap]

\* lines 178-184: return the value, or redirect the failure, or throw it
wispSyncCatch(c, out, evs) ==
  IF out.ok THEN [call |-> Returned(c, out, evs \o <<Ev("readOk", c)>>), heap |-> out.heap]
  ELSE IF req.fallback # Absent
    THEN [call |-> Redispatch(c, "sync", evs \o <<ReadErrEv(out, c)>>), heap |-> heap]
  ELSE [call |-> Thrown(c, LoadFailedMsg(c.url, out.err), evs \o <<ReadErrEv(out, c)>>),
        heap |-> heap]

\* lines 168-184: the try block of wispSync on the located target
wispSyncTry(c, out) == wispSyncCatch(c, out, <<Ev("read", c)>> \o ValidateEvs(out, c))

wispSyncAt(c) == wispSyncTry(c, rawRead(heap, c.url))

\* lines 158-168: the location is computed before the try block
wispSyncLocated(c0, u, n) ==
  IF locateThrew(u) THEN [call |-> locateFailed(c0, u), heap |-> heap]
  ELSE wispSyncAt(Located(c0, u, n))

\* lines 156-185: one invocation of wispSync(ref, options)
wispSync(c0, ref) ==
  wispSyncLocated(c0, ComputeUrl(ref, req.base, SyncStack(c0.frames, c0.depth)),
                  ComputeSampled(ref, req.base, SyncStack(c0.frames, c0.depth)))

\* a caller invokes wispSync(input, options)
CallWispSync ==
  /\ running = 0
  /\ Len(calls) < MaxCalls
  /\ InFlight = 0
  /\ \E cf \in CallerStacks :
       \E r \in {wispSync(NewCall("wispSync", cf), req.input)} :
          /\ calls' = Append(calls, r.call)
          /\ heap' = r.heap
          /\ running' = IF r.call.pc = "sync" THEN Len(calls) + 1 ELSE 0
          /\ hook' = hookAfter(hook, r.call.sampled)
  /\ UNCHANGED <<fs, manifests, PACKAGE_ROOT, host, req, registry, res>>

\* the recursive invocation wispSync(fallback, options), the callers still
\* on the stack
WispSyncRetry ==
  /\ running # 0
  /\ calls[running].pc = "sync"
  /\ calls[running].depth <= MaxDepth
  /\ \E r \in {wispSync(calls[running], req.fallback)} :
        /\ calls' = [calls EXCEPT ![running] = r.call]
        /\ heap' = r.heap
        /\ running' = IF r.call.pc = "sync" THEN running ELSE 0
        /\ hook' = hookAfter(hook, r.call.sampled - calls[running].sampled)
  /\ UNCHANGED <<fs, manifests, PACKAGE_ROOT, host, req, registry, res>>

\* ----------------------------------------------------------------- wisp
\* lines 72-85: the invocation computes its location and requests the
\* modern import, where it suspends
wispLocated(c0, u, n) ==
  IF locateThrew(u) THEN locateFailed(c0, u)
  ELSE [Located(c0, u, n) EXCEPT !.pc = "with", !.log = c0.log \o <<Ev("with", c0)>>]

wispEnter(c0, ref, stack) ==
  wispLocated(c0, ComputeUrl(ref, req.base, stack), ComputeSampled(ref, req.base, stack))

\* a caller invokes wisp(input, options), whatever other calls are pending
StartWisp ==
  /\ running = 0
  /\ Len(calls) < MaxCalls
  /\ \E cf \in CallerStacks :
       \E r \in {wispEnter(NewCall("wisp", cf), req.input, SyncStack(cf, 0))} :
          /\ calls' = Append(calls, r)
          /\ hook' = hookAfter(hook, r.sampled)
  /\ UNCHANGED <<fs, manifests, PACKAGE_ROOT, host, req, heap, registry, running, res>>

\* a caller invokes wisp(input, options) when its earlier calls have settled
CallWisp ==
  /\ InFlight = 0
  /\ StartWisp

\* import(...) resolved: the heap, the registry and the outcome of the
\* statements of the try block after it
imported(ld, url) ==
  [heap |-> ld.heap, registry |-> ld.registry, ok |-> TRUE,
   out |-> afterImport(ld.heap, ld.registry[fileURLToPath(url)])]

\* await import(url.href, { with | assert : { type } }) and the rest of
\* its try block (lines 84-97 / 99-112)
strategy(url, syntax) ==
  IF importSucceeds(url, syntax, req.type) THEN imported(importLoad(url), url)
  ELSE [heap |-> heap, registry |-> registry, ok |-> FALSE,
        out |-> Outcome(FALSE, heap, 0, <<"import failed">>, FALSE)]

\* lines 84-100: the modern strategy returns, or its failure is swallowed
\* and the legacy import is requested
withCatch(c, s) ==
  IF s.out.ok THEN Returned(c, s.out, ValidateEvs(s.out, c) \o <<Ev("withOk", c)>>)
  ELSE [c EXCEPT !.pc = "assert",
                 !.log = c.log \o ValidateEvs(s.out, c) \o <<Ev("withErr", c), Ev("assert", c)>>]

\* the legacy strategy letting its failure reach the caller (mutant of
\* assertCatch)
assertCatchRethrows(c, s) ==
  IF s.out.ok THEN Returned(c, s.out, ValidateEvs(s.out, c) \o <<Ev("assertOk", c)>>)
  ELSE Thrown(c, s.out.err, ValidateEvs(s.out, c) \o <<Ev("assertErr", c)>>)

\* lines 99-134: the legacy strategy returns, or its failure is swallowed
\* and the raw read is requested when type is json, otherwise the call fails
assertCatch(c, s) ==
  IF s.out.ok THEN Returned(c, s.out, ValidateEvs(s.out, c) \o <<Ev("assertOk", c)>>)
  ELSE IF req.type = "json"
    THEN [c EXCEPT !.pc = "read",
                   !.log = c.log \o ValidateEvs(s.out, c) \o <<Ev("assertErr", c), Ev("read", c)>>]
  ELSE Thrown(c, UnsupportedMsg(req.type, c.url), ValidateEvs(s.out, c) \o <<Ev("assertErr", c)>>)

\* the modern import settles
WithSettled(i) ==
  /\ running = 0
  /\ i \in 1..Len(calls)
  /\ calls[i].pc = "with"
  /\ \E s \in {strategy(calls[i].url, "with")} :
        /\ registry' = s.registry
        /\ heap' = IF s.out.ok THEN s.out.heap ELSE s.heap
        /\ calls' = [calls EXCEPT ![i] = withCatch(calls[i], s)]
  /\ UNCHANGED <<fs, manifests, PACKAGE_ROOT, host, req, running, hook, res>>

\* the legacy import settles
AssertSettled(i) ==
  /\ running = 0
  /\ i \in 1..Len(calls)
  /\ calls[i].pc = "assert"
  /\ \E s \in {strategy(calls[i].url, "assert")} :
        /\ registry' = s.registry
        /\ heap' = IF s.out.ok THEN s.out.heap ELSE s.heap
        /\ calls' = [calls EXCEPT ![i] = assertCatch(calls[i], s)]
  /\ UNCHANGED <<fs, manifests, PACKAGE_ROOT, host, req, running, hook, res>>

\* lines 126-131: the catch of the raw read when a fallback is supplied:
\* return wisp(fallback, options), which runs until its first await
wispRetry(c, out, visible) ==
  wispEnter(Redispatch(c, "new", ValidateEvs(out, c) \o <<ReadErrEv(out, c)>>),
            req.fallback, AsyncStack(c.frames, visible))

\* lines 116-131: the raw read settles; the value is returned, or the
\* failure is redirected to the fallback reference, or it is thrown
ReadSettled(i) ==
  /\ running = 0
  /\ i \in 1..Len(calls)
  /\ calls[i].pc = "read"
  /\ \E out \in {rawRead(heap, calls[i].url)} :
       IF out.ok
          THEN /\ heap' = out.heap
               /\ hook' = hook
               /\ calls' = [calls EXCEPT ![i] =
                    Returned(calls[i], out, ValidateEvs(out, calls[i]) \o <<Ev("readOk", calls[i])>>)]
        ELSE IF req.fallback # Absent
          THEN /\ calls[i].depth < MaxDepth
               /\ heap' = heap
               /\ \E visible \in BOOLEAN :
                    \E r \in {wispRetry(calls[i], out, visible)} :
                       /\ calls' = [calls EXCEPT ![i] = r]
                       /\ hook' = hookAfter(hook, r.sampled - calls[i].sampled)
        ELSE /\ heap' = heap
             /\ hook' = hook
             /\ calls' = [calls EXCEPT ![i] =
                  Thrown(calls[i], LoadFailedMsg(calls[i].url, out.err),
                         ValidateEvs(out, calls[i]) \o <<ReadErrEv(out, calls[i])>>)]
  /\ UNCHANGED <<fs, manifests, PACKAGE_ROOT, host, req, registry, running, res>>

\* ---------------------------------------------------------------- caller
\* the caller writes to the object a finished call returned
Mutate(i) ==
  /\ running = 0
  /\ i \in 1..Len(calls)
  /\ calls[i].pc = "done"
  /\ \A o \in 1..Len(heap) : heap[o].foo # "mutated"
  /\ heap' = [heap EXCEPT ![calls[i].result] = [foo |-> "mutated"]]
  /\ UNCHANGED <<fs, manifests, PACKAGE_ROOT, host, req, registry, calls, running, hook, res>>

Next ==
  \/ CallWispSync
  \/ WispSyncRetry
  \/ CallWisp
  \/ \E i \in 1..MaxCalls : WithSettled(i)
  \/ \E i \in 1..MaxCalls : AssertSettled(i)
  \/ \E i \in 1..MaxCalls : ReadSettled(i)
  \/ \E i \in 1..MaxCalls : Mutate(i)

Spec == Init /\ [][Next]_vars

\* ---------------------------------------- every form of input and base
\* a base that is not a URL, and inputs that are a URL object, a file://
\* string, a file:// string that is no URL, a number, null, String objects
INVALID_BASE == <<"not a url">>

LocateInputs ==
  {<<URL_OBJECT>> \o pathToFileURL(PrimaryPath), pathToFileURL(PrimaryPath), PrimaryPath,
   <<".", "a.json">>, <<"file://", "[">>, NUMBER_REF, NULL_REF,
   <<STRING_OBJECT>> \o PrimaryPath}

LocateRequests ==
  [input : LocateInputs,
   base : {Absent, BASE_URL, INVALID_BASE},
   validate : {"none"},
   reviver : {"none"},
   type : {"json"},
   fallback : {Absent, FallbackPath, <<".", "b.json">>}]

InitLocate ==
  /\ fs \in {f \in FileSystems : f[PrimaryPath] \in {Missing, DocBar} /\ f[FallbackPath] = DocBaz}
  /\ manifests = {<<"/", "pkg">>, <<"/", "app">>}
  /\ PACKAGE_ROOT = findPackageRoot(THIS_FILE)
  /\ host \in {h \in Hosts : ~h.other /\ ~h.assert}
  /\ req \in LocateRequests
  /\ heap = <<>>
  /\ registry = [l \in Locations |-> 0]
  /\ calls = <<>>
  /\ running = 0
  /\ hook = "unset"
  /\ res = NoCall

SpecLocate == InitLocate /\ [][Next]_vars

\* ------------------------------------- the target rewritten between loads
\* one reference loaded by wisp, the file it names rewritten while no load
\* is pending
InitFileChange ==
  /\ fs \in {f \in FileSystems : f[PrimaryPath] \in {DocBar, DocBaz} /\ f[FallbackPath] = Missing}
  /\ manifests = {<<"/", "pkg">>, <<"/", "app">>}
  /\ PACKAGE_ROOT = findPackageRoot(THIS_FILE)
  /\ host \in {h \in Hosts : ~h.other}
  /\ req \in {r \in Requests : /\ r.input = PrimaryPath /\ r.base = Absent
                                /\ r.reviver = "none" /\ r.type = "json"
                                /\ r.fallback = Absent}
  /\ heap = <<>>
  /\ registry = [l \in Locations |-> 0]
  /\ calls = <<>>
  /\ running = 0
  /\ hook = "unset"
  /\ res = NoCall

\* the environment rewrites the file the reference names
WriteFile ==
  /\ running = 0
  /\ InFlight = 0
  /\ \E d \in {Invalid, DocBar, DocBaz} :
       /\ fs[PrimaryPath] # d
       /\ fs' = [fs EXCEPT ![PrimaryPath] = d]
  /\ UNCHANGED <<manifests, PACKAGE_ROOT, host, req, heap, registry, calls, running, hook, res>>

NextFileChange ==
  \/ CallWisp
  \/ \E i \in 1..MaxCalls : WithSettled(i)
  \/ \E i \in 1..MaxCalls : AssertSettled(i)
  \/ \E i \in 1..MaxCalls : ReadSettled(i)
  \/ WriteFile

SpecFileChange == InitFileChange /\ [][NextFileChange]_vars

\* ------------------------------------------------ wisp calls interleaved
\* calls of wisp with caller-relative references, started while earlier
\* ones are suspended
InitConcurrent ==
  /\ fs \in {f \in FileSystems : f[PrimaryPath] \in {Missing, DocBar} /\ f[FallbackPath] = Missing}
  /\ manifests = {<<"/", "pkg">>, <<"/", "app">>}
  /\ PACKAGE_ROOT = findPackageRoot(THIS_FILE)
  /\ host = [with |-> TRUE, assert |-> FALSE, other |-> FALSE]
  /\ req \in {r \in Requests : /\ r.input = <<".", "a.json">> /\ r.base = Absent
                                /\ r.validate = "none" /\ r.reviver = "none"
                                /\ r.type = "json" /\ r.fallback = <<".", "b.json">>}
  /\ heap = <<>>
  /\ registry = [l \in Locations |-> 0]
  /\ calls = <<>>
  /\ running = 0
  /\ hook \in Hooks
  /\ res = NoCall

NextConcurrent ==
  \/ StartWisp
  \/ \E i \in 1..MaxCalls : WithSettled(i)
  \/ \E i \in 1..MaxCalls : AssertSettled(i)
  \/ \E i \in 1..MaxCalls : ReadSettled(i)

SpecConcurrent == InitConcurrent /\ [][NextConcurrent]_vars

\* ------------------------------------------- the resolver called directly
\* the references a caller hands to the resolver
ResolverRefs ==
  {<<".", "a.json">>, <<"..", "app", "a.json">>, PrimaryPath,
   <<"file://", "/", "app", "a.json">>, NUMBER_REF, NULL_REF,
   <<STRING_OBJECT, "file://", "/", "app", "a.json">>, <<STRING_OBJECT, ".", "a.json">>}

\* the frames getStack returns below the pick function: a direct call from
\* a user module, a call through the loader, a call inside the library with
\* no user frame left, a call with no usable frame
ResolverStacks ==
  {<<THIS_FILE, THIS_FILE, USER_FILE, NODE_LOADER_FRAME>>,
   <<THIS_FILE, THIS_FILE, WISP_FILE, USER_FILE, NODE_LOADER_FRAME>>,
   <<THIS_FILE, THIS_FILE, WISP_FILE, NODE_TASK_FRAME>>,
   <<NODE_TASK_FRAME>>}

\* the frames the pick functions scan: those, and stacks with an entry
\* file of the package, with frames between the library and the caller
\* that are skipped, with a dist frame, with the caller below the library
ScanStacks ==
  ResolverStacks \cup
  {<<THIS_FILE, WISP_FILE, INDEX_FILE, USER_FILE>>,
   <<THIS_FILE, WISP_FILE, ENTRY_FILE, USER_FILE>>,
   <<THIS_FILE, WISP_FILE, NODE_TASK_FRAME, Absent, THIS_FILE, USER_FILE_URL>>,
   <<THIS_FILE, DIST_FILE, USER_FILE>>,
   <<USER_FILE, WISP_FILE, USER_FILE, ENTRY_FILE>>,
   <<WISP_FILE, INDEX_FILE, WISP_FILE, USER_FILE>>}

\* the paths findPackageRoot starts from
StartPaths == {THIS_FILE, USER_FILE, <<"/">>, <<"/", "tmp", "x.mjs">>, <<"/", "pkg">>}

ResolverFileSystems ==
  {[l \in Locations |-> IF l = PrimaryPath THEN a
                        ELSE IF l = <<"/", "pkg", "src", "a.json">> THEN b ELSE Missing] :
     a \in {Missing, DocBar}, b \in {Missing, DocBar}}

\* where package.json files lie: in the library's and the caller's package,
\* in the caller's only, in the filesystem root only, in the library's
\* package and its src directory, nowhere
ManifestSets ==
  {{<<"/", "pkg">>, <<"/", "app">>}, {<<"/", "app">>}, {<<"/">>},
   {<<"/", "pkg">>, <<"/", "pkg", "src">>}, {}}


InitResolver ==
  /\ fs \in ResolverFileSystems
  /\ manifests \in ManifestSets
  /\ PACKAGE_ROOT = findPackageRoot(THIS_FILE)
  /\ host = [with |-> FALSE, assert |-> FALSE, other |-> FALSE]
  /\ req = [input |-> PrimaryPath, base |-> Absent, validate |-> "none", reviver |-> "none",
            type |-> "json", fallback |-> Absent]
  /\ heap = <<>>
  /\ registry = [l \in Locations |-> 0]
  /\ calls = <<>>
  /\ running = 0
  /\ hook \in Hooks
  /\ res = NoCall

ResolverCall(mode, rel, stack, r) ==
  [mode |-> mode, rel |-> rel, stack |-> stack, out |-> r.out, threw |-> r.threw,
   sampled |-> r.sampled, checked |-> r.checked, hookBefore |-> hook]

\* a caller invokes resolvePathFromCaller(rel)
CallResolvePath ==
  /\ \E rel \in ResolverRefs, stack \in ResolverStacks :
       \E r \in {resolvePathFromCaller(rel, stack)} :
          /\ res' = ResolverCall("path", rel, stack, r)
          /\ hook' = hookAfter(hook, r.sampled)
  /\ UNCHANGED <<fs, manifests, PACKAGE_ROOT, host, req, heap, registry, calls, running>>

\* a caller invokes resolveUrlFromCaller(rel)
CallResolveUrl ==
  /\ \E rel \in ResolverRefs, stack \in ResolverStacks :
       \E r \in {resolveUrlFromCallerTraced(rel, stack)} :
          /\ res' = ResolverCall("url", rel, stack, r)
          /\ hook' = hookAfter(hook, r.sampled)
  /\ UNCHANGED <<fs, manifests, PACKAGE_ROOT, host, req, heap, registry, calls, running>>

\* a caller invokes getStack(skipFn); an exception may escape the try block
CallGetStack ==
  /\ \E stack \in ResolverStacks, threw \in BOOLEAN :
       /\ res' = [mode |-> "getStack", rel |-> Absent, stack |-> stack, out |-> Absent,
                  threw |-> IF threw THEN "Error" ELSE "", sampled |-> 1,
                  checked |-> FALSE, hookBefore |-> hook]
       /\ hook' = getStackHook(hook, threw)
  /\ UNCHANGED <<fs, manifests, PACKAGE_ROOT, host, req, heap, registry, calls, running>>

\* the record of a call of one of the resolver's private functions
PrivateCall(mode, rel, stack, out, sampled) ==
  [mode |-> mode, rel |-> rel, stack |-> stack, out |-> out, threw |-> "",
   sampled |-> sampled, checked |-> FALSE, hookBefore |-> hook]

\* pickPrimaryBaseFile() is called
CallPickPrimary ==
  /\ \E stack \in ScanStacks :
       res' = PrivateCall("pickPrimary", Absent, stack, pickPrimaryBaseFile(stack), 1)
  /\ hook' = hookAfter(hook, 1)
  /\ PACKAGE_ROOT' = cachedPackageRoot(PACKAGE_ROOT, manifests)
  /\ UNCHANGED <<fs, manifests, host, req, heap, registry, calls, running>>

\* pickFallbackBaseFile() is called
CallPickFallback ==
  /\ \E stack \in ScanStacks :
       res' = PrivateCall("pickFallback", Absent, stack, pickFallbackBaseFile(stack), 1)
  /\ hook' = hookAfter(hook, 1)
  /\ UNCHANGED <<fs, manifests, PACKAGE_ROOT, host, req, heap, registry, calls, running>>

\* findPackageRoot(startPath) is called
CallFindPackageRoot ==
  /\ \E start \in StartPaths :
       res' = PrivateCall("findPackageRoot", start, <<>>, findPackageRoot(start), 0)
  /\ UNCHANGED <<fs, manifests, PACKAGE_ROOT, host, req, heap, registry, calls, running, hook>>

NextResolver ==
  \/ CallResolvePath
  \/ CallResolveUrl
  \/ CallGetStack
  \/ CallPickPrimary
  \/ CallPickFallback
  \/ CallFindPackageRoot

SpecResolver == InitResolver /\ [][NextResolver]_vars

\* --------------------------- package.json files written after module load
\* the environment creates or removes package.json files
WriteManifest ==
  /\ \E m \in ManifestSets :
       /\ m # manifests
       /\ manifests' = m
  /\ UNCHANGED <<fs, PACKAGE_ROOT, host, req, heap, registry, calls, running, hook, res>>

NextBoundary ==
  \/ CallPickPrimary
  \/ CallResolveUrl
  \/ CallFindPackageRoot
  \/ WriteManifest

SpecBoundary == InitResolver /\ [][NextBoundary]_vars

\* =============================================================== claims
Idx == 1..Len(calls)

Finished(c) == c.pc \in {"done", "failed"}

\* the events of invocation d of a call that are named in names
EvsAt(log, d, names) == SelectSeq(log, LAMBDA e : e.d = d /\ e.ev \in names)

RelativeInput == ~isAbsolute(req.input) /\ ~startsWithFileScheme(req.input)

LibrarySrcDir == <<"/", "pkg", "src">>

\* the location a caller-relative reference names: the reference joined to
\* the directory of the calling module
CallerRelative(c, ref) == pathToFileURL(pathResolve(dirname(Head(c.frames)), ref))

\* C1: a relative reference given without base by a module outside the
\* library's src/dist tree is loaded from the reference joined to the
\* directory of that module, never from under the library's own source
\* directory, whether or not the target exists there.
C1_PrimaryIsCallerRelative ==
  \A i \in Idx :
    (RelativeInput /\ req.base = Absent /\ ~currentIsInSrcOrDist(Head(calls[i].frames)))
      => /\ calls[i].targets[1] = CallerRelative(calls[i], req.input)
         /\ ~isPrefix(LibrarySrcDir, fileURLToPath(calls[i].targets[1]))

\* C2: two successful loads of the same reference return values that share
\* no object with each other nor with the host's module registry.
C2_ResultsShareNothing ==
  \A i \in Idx : calls[i].pc = "done" =>
    /\ \A j \in Idx : (j # i /\ calls[j].pc = "done") => calls[j].result # calls[i].result
    /\ \A l \in Locations : registry[l] # calls[i].result

\* validate threw in some invocation of the call
ValidateThrew(c) ==
  \E k \in 1..Len(c.log) : c.log[k].ev = "validate" /\ c.log[k].info = "threw"

\* C3: when validate raises X on a loaded document and no fallback is
\* supplied, the call fails with the message "@cldmv/wisp: X".
C3_ValidationMessageIsPrefixed ==
  \A i \in Idx :
    (req.fallback = Absent /\ ValidateThrew(calls[i]) /\ Finished(calls[i]))
      => calls[i].pc = "failed" /\ calls[i].err = <<"@cldmv/wisp: ", "need bar">>

\* C4: when the primary and the fallback target both fail to load, the
\* failure of the fallback load reaches the caller: no load is dispatched
\* after the fallback's, and a call that failed there names the fallback
\* location.
C4_FallbackFailureSurfaces ==
  \A i \in Idx :
    /\ calls[i].depth <= 1
    /\ (calls[i].pc = "failed" /\ calls[i].depth = 1)
         => isPrefix(<<"@cldmv/wisp: Failed to load JSON file at ">> \o calls[i].targets[2],
                     calls[i].err)

\* the raw read of the primary target failed on the read or on the parse
PrimaryReadFailed(c) ==
  \E k \in 1..Len(c.log) :
    c.log[k].ev = "readErr" /\ c.log[k].d = 0 /\ c.log[k].info \in {"ENOENT", "SyntaxError"}

\* the fallback reference of the request names a valid JSON document
FallbackNamesDocument(c) ==
  /\ req.fallback # Absent
  /\ contentAt(fileURLToPath(ComputeUrl(req.fallback, req.base, <<Head(c.frames)>>))).st = "ok"

FallbackDocument(c) ==
  [foo |-> contentAt(fileURLToPath(ComputeUrl(req.fallback, req.base, <<Head(c.frames)>>))).foo]

\* C5: when the primary target cannot be read or parsed and the fallback
\* names an existing valid JSON document, the call returns the parsed
\* content of the fallback document (as the reviver of the request leaves
\* it).
C5_FallbackContentReturned ==
  \A i \in Idx :
    (PrimaryReadFailed(calls[i]) /\ FallbackNamesDocument(calls[i]) /\ Finished(calls[i]))
      => /\ calls[i].pc = "done"
         /\ calls[i].value = Revive(req.reviver, FallbackDocument(calls[i]))

PrimaryUnreadable(c) ==
  c.targets # <<>> /\ contentAt(fileURLToPath(c.targets[1])).st \in {"missing", "invalid"}

ReadCause(c) ==
  IF contentAt(fileURLToPath(c.targets[1])).st = "missing" THEN "ENOENT" ELSE "SyntaxError"

\* C6: with type json, a primary target that is missing or is not valid
\* JSON, and no fallback, the call never returns a value, and the failure
\* it raises names the resolved location and the read or parse cause.
C6_LoadFailureNamesLocationAndCause ==
  \A i \in Idx :
    (req.type = "json" /\ req.fallback = Absent /\ PrimaryUnreadable(calls[i]))
      => /\ calls[i].pc # "done"
         /\ calls[i].pc = "failed" =>
              calls[i].err = <<"@cldmv/wisp: Failed to load JSON file at ">>
                               \o calls[i].targets[1] \o <<": ", ReadCause(calls[i])>>

C6_Witness ==
  \E i \in Idx :
    /\ calls[i].api = "wisp" /\ calls[i].pc = "failed"
    /\ req.type = "json" /\ req.fallback = Absent /\ PrimaryUnreadable(calls[i])
    /\ RelativeInput

\* C7: when a strategy of wisp obtains the document and validate raises on
\* it, the call fails with the wrapped validation error: validate runs once
\* for that target and nothing further is attempted.
C7_ValidationFailureEndsTheCall ==
  \A i \in Idx : calls[i].api = "wisp" =>
    /\ \A d \in 0..calls[i].depth : Len(EvsAt(calls[i].log, d, {"validate"})) <= 1
    /\ ValidateThrew(calls[i]) =>
         calls[i].pc = "failed" /\ calls[i].err = <<"@cldmv/wisp: ", "need bar">>

\* C8: the fallback is loaded only after the read or the parse of the
\* primary target has failed in the raw-read strategy, never because
\* validate rejected a primary document that was read and parsed.
C8_FallbackOnlyAfterReadFailure ==
  \A i \in Idx : calls[i].depth >= 1 => PrimaryReadFailed(calls[i])

StrategyEvs ==
  {"with", "withOk", "withErr", "assert", "assertOk", "assertErr", "read", "readOk", "readErr"}

\* the place of an event in the order modern import, legacy import, raw
\* read: a strategy starts at an odd place and finishes at the next; a
\* re-dispatch to the fallback starts the order again
Phase(e) ==
  CASE e.ev = "fallback" -> 0
    [] e.ev = "with" -> 1
    [] e.ev \in {"withOk", "withErr"} -> 2
    [] e.ev = "assert" -> 3
    [] e.ev \in {"assertOk", "assertErr"} -> 4
    [] e.ev = "read" -> 5
    [] OTHER -> 6

\* event e may come next after the strategy events so far, the last of
\* which has place prev: the next place of the order in the same
\* invocation, or a new invocation once the raw read has failed
MayFollow(prev, unfinished, e) ==
  IF e.ev = "fallback" THEN prev = 6 /\ unfinished
  ELSE Phase(e) = prev + 1 /\ (prev # 0 => unfinished)

InOrder(evs) ==
  \A k \in 1..Len(evs) :
    IF k = 1 THEN evs[k].ev = "with" /\ evs[k].d = 0
    ELSE /\ MayFollow(Phase(evs[k - 1]),
                      evs[k - 1].ev \notin {"withOk", "assertOk", "readOk"}, evs[k])
         /\ evs[k].d = IF evs[k].ev = "fallback" THEN evs[k - 1].d + 1 ELSE evs[k - 1].d

\* the number of times strategy ev was started for target t in a call
Attempts(c, ev, t) ==
  Len(SelectSeq(c.log, LAMBDA e : e.ev = ev /\ c.targets[e.d + 1] = t))

\* C9: in one call of wisp the strategies run in the order modern import,
\* legacy import, raw read, each starting only after the one before it has
\* finished, so that at most one is in progress, and each is attempted at
\* most once for each target of the call.
C9_StrategiesInOrder ==
  \A i \in Idx : calls[i].api = "wisp" =>
    /\ InOrder(SelectSeq(calls[i].log, LAMBDA e : e.ev \in StrategyEvs \cup {"fallback"}))
    /\ \A k \in 1..Len(calls[i].targets) : \A ev \in {"with", "assert", "read"} :
         Attempts(calls[i], ev, calls[i].targets[k]) <= 1

\* C10: a call whose type is not json never enters the raw-read strategy:
\* its target is never read as text and parsed as JSON.
C10_NonJsonNeverRead ==
  \A i \in Idx : req.type # "json" =>
    \A k \in 1..Len(calls[i].log) : calls[i].log[k].ev # "read"

\* both import strategies of invocation d of the call have failed
BothImportsFailed(c, d) ==
  Len(EvsAt(c.log, d, {"withErr"})) = 1 /\ Len(EvsAt(c.log, d, {"assertErr"})) = 1

\* C11: when type is not json and both import strategies have failed, wisp
\* fails with the unsupported-type failure, whose message names the
\* declared type and the resolved location.
C11_UnsupportedTypeNamesTypeAndLocation ==
  \A i \in Idx :
    (calls[i].api = "wisp" /\ req.type # "json" /\ BothImportsFailed(calls[i], 0))
      => /\ calls[i].pc = "failed"
         /\ calls[i].err =
              <<"@cldmv/wisp: Unsupported type '", req.type,
                "' or failed to load module at ">> \o calls[i].targets[1]

C11_Witness ==
  \E i \in Idx :
    /\ calls[i].api = "wisp" /\ req.type # "json" /\ req.fallback = Absent
    /\ BothImportsFailed(calls[i], 0) /\ calls[i].pc = "failed"

\* C12: when type is not json, both import strategies have failed and a
\* fallback reference is supplied, wisp does not fail there: it loads the
\* fallback reference.
C12_NonJsonRetriesFallback ==
  \A i \in Idx :
    (calls[i].api = "wisp" /\ req.type # "json" /\ req.fallback # Absent
       /\ BothImportsFailed(calls[i], 0))
      => /\ calls[i].depth >= 1
         /\ Len(calls[i].targets) >= 2

\* the failure the raw read of location u raises
RawReadCause(u) == rawRead(<<>>, u).err

\* event k of the log is a swallowed failure of strategy ev, and the next
\* event starts strategy next
FallsThrough(log, k, ev, next) ==
  log[k].ev = ev => (k < Len(log) /\ log[k + 1].ev = next /\ log[k + 1].d = log[k].d)

AbsoluteOrLocator(rel) == typeofString(rel) /\ (isAbsolute(rel) \/ startsWithFileScheme(rel))

\* C14: for an absolute path or a file:// reference the resolver returns
\* without sampling the stack and without an existence check; path mode
\* returns the path unchanged or the locator's path, URL mode returns the
\* locator unchanged or the path's file URL.
C14_AbsoluteShortCircuits ==
  (res.mode \in {"path", "url"} /\ AbsoluteOrLocator(res.rel))
    => /\ res.threw = "" /\ res.sampled = 0 /\ ~res.checked
       /\ res.mode = "path" =>
            res.out = IF Head(res.rel) = "file://" THEN Tail(res.rel) ELSE res.rel
       /\ res.mode = "url" =>
            res.out = IF Head(res.rel) = "file://" THEN res.rel ELSE <<"file://">> \o res.rel

C14_Witness ==
  /\ res.mode = "path" /\ res.rel = <<"file://", "/", "app", "a.json">>
  /\ res.out = PrimaryPath /\ res.stack = <<THIS_FILE, THIS_FILE, USER_FILE, NODE_LOADER_FRAME>>
  /\ ~existsSync(PrimaryPath)

\* C15: for a reference that is not a string the resolver raises a
\* type-mismatch failure before sampling the stack and before touching the
\* filesystem.
C15_NonStringRejected ==
  (res.mode \in {"path", "url"} /\ ~typeofString(res.rel))
    => res.threw = "TypeError" /\ res.sampled = 0 /\ ~res.checked

\* the candidate of the last resolver call built from base file b
CandidateFrom(b) ==
  IF res.mode = "path" THEN pathResolve(dirname(b), res.rel)
  ELSE <<"file://">> \o pathResolve(dirname(b), res.rel)

\* the first frame that is neither absent, internal, nor the resolver
RECURSIVE FirstUsableFrame(_)
FirstUsableFrame(stack) ==
  IF stack = <<>> THEN THIS_FILE
  ELSE IF Head(stack) = <<>> \/ Head(stack) = THIS_FILE \/ Head(Head(stack)) = "node:internal"
    THEN FirstUsableFrame(Tail(stack))
  ELSE IF Head(Head(stack)) = "file://" THEN Tail(Head(stack))
  ELSE Head(stack)

\* selectPrimary() ?? selectFallback() of the last resolver call
PrimaryBase ==
  IF pickPrimaryBaseFile(res.stack) # Absent THEN pickPrimaryBaseFile(res.stack)
  ELSE FirstUsableFrame(res.stack)

\* the path a candidate names
PathOf(candidate) == IF res.mode = "path" THEN candidate ELSE Tail(candidate)

\* C16: for a relative reference the resolver returns the candidate built
\* from selectPrimary() ?? selectFallback() when it exists, otherwise the
\* candidate built from selectFallback(), existing or not: it always
\* returns a location.
C16_RelativeAlwaysResolves ==
  (res.mode \in {"path", "url"} /\ typeofString(res.rel) /\ ~AbsoluteOrLocator(res.rel))
    => /\ res.threw = ""
       /\ res.out = IF PathOf(CandidateFrom(PrimaryBase)) \in DOMAIN fs
                       /\ fs[PathOf(CandidateFrom(PrimaryBase))].st # "missing"
                    THEN CandidateFrom(PrimaryBase)
                    ELSE CandidateFrom(FirstUsableFrame(res.stack))

C16_Witness ==
  /\ res.mode = "url" /\ res.rel = <<".", "a.json">> /\ res.threw = ""
  /\ res.stack = <<THIS_FILE, THIS_FILE, WISP_FILE, USER_FILE, NODE_LOADER_FRAME>>
  /\ res.out = <<"file://", "/", "pkg", "src", "a.json">>
  /\ ~existsSync(<<"/", "pkg", "src", "a.json">>)

\* C17: after a call of getStack, returned or thrown out of,
\* Error.prepareStackTrace holds the value it had before the call.
C17_HookRestored ==
  res.mode # "none" => hook = res.hookBefore

C17_Witness ==
  res.mode = "getStack" /\ res.threw # "" /\ res.hookBefore = "userHook" /\ hook = "userHook"

RelativeFallback ==
  req.fallback # Absent /\ ~isAbsolute(req.fallback) /\ ~startsWithFileScheme(req.fallback)

\* C18: a relative fallback reference is resolved against the directory of
\* the module that called wisp or wispSync, also when the retry is issued
\* after wisp has suspended and resumed.
C18_FallbackIsCallerRelative ==
  \A i \in Idx :
    (RelativeFallback /\ req.base = Absent /\ Len(calls[i].targets) >= 2)
      => calls[i].targets[2] = CallerRelative(calls[i], req.fallback)

\* C19: given the same reference and options, wisp and wispSync end the
\* same way: both fail, or both return and the values are equal.
C19_SyncAndAsyncAgree ==
  \A i \in Idx : \A j \in Idx :
    (calls[i].api = "wisp" /\ calls[j].api = "wispSync"
       /\ Finished(calls[i]) /\ Finished(calls[j]))
      => /\ calls[i].pc = calls[j].pc
         /\ calls[i].pc = "done" => calls[i].value = calls[j].value

LastEv(c) == c.log[Len(c.log)].ev

\* the call returned the document an import strategy obtained for the
\* primary target
ViaImport(c) == c.pc = "done" /\ c.depth = 0 /\ LastEv(c) \in {"withOk", "assertOk"}

\* the call ended in the raw read of the primary target
ViaRawRead(c) == Finished(c) /\ c.depth = 0 /\ LastEv(c) \in {"readOk", "readErr"}

\* C20: with a reviver, a load that obtained the document by an import
\* strategy and a load that obtained it by the raw read end the same way,
\* with the same value.
C20_ReviverSameByImportAndRawRead ==
  \A i \in Idx : \A j \in Idx :
    (req.reviver # "none" /\ ViaImport(calls[i]) /\ ViaRawRead(calls[j])
       /\ calls[i].targets[1] = calls[j].targets[1])
      => calls[j].pc = "done" /\ calls[j].value = calls[i].value

\* the file of a frame as a filesystem path
FramePath(cs) == IF cs # <<>> /\ Head(cs) = "file://" THEN Tail(cs) ELSE cs

\* the frame has no file name, is a node:internal module, or is the
\* selector's own source file
Skipped(p) == p = <<>> \/ Head(p) = "node:internal" \/ p = THIS_FILE

\* the files of the frames of a stack that are not skipped, deepest first
UsableFrames(stack) ==
  SelectSeq([k \in 1..Len(stack) |-> FramePath(stack[k])], LAMBDA p : ~Skipped(p))

\* the file lies in the src/ or dist/ subtree of the package
InsideSrcOrDist(p) ==
  /\ PACKAGE_ROOT # Absent
  /\ Len(p) > Len(PACKAGE_ROOT)
  /\ SubSeq(p, 1, Len(PACKAGE_ROOT)) = PACKAGE_ROOT
  /\ p[Len(PACKAGE_ROOT) + 1] \in {"src", "dist"}

\* the places of u where a frame outside src/dist follows one inside
Transitions(u) == {k \in 2..Len(u) : InsideSrcOrDist(u[k - 1]) /\ ~InsideSrcOrDist(u[k])}

FirstTransition(u, T) == IF T = {} THEN Absent ELSE u[CHOOSE k \in T : \A j \in T : k <= j]

C23_IndexFrameIsPassed ==
  (res.mode = "pickPrimary" /\ PACKAGE_ROOT = <<"/", "pkg">>
     /\ res.stack = <<THIS_FILE, WISP_FILE, INDEX_FILE, USER_FILE>>)
    => res.out = USER_FILE

\* the frame with the package's index.mjs and main.mjs exchanged
TwinFrame(f) == IF f = INDEX_FILE THEN ENTRY_FILE ELSE IF f = ENTRY_FILE THEN INDEX_FILE ELSE f

\* the stack with the same src/dist classification, the index.* entry
\* files being other frames
Twin(stack) == [k \in 1..Len(stack) |-> TwinFrame(stack[k])]

C25_SkippedFramesLeaveNoTrace ==
  res.mode = "pickPrimary" => res.out = pickPrimaryBaseFile(UsableFrames(res.stack))

C25_Witness ==
  /\ res.mode = "pickPrimary" /\ PACKAGE_ROOT = <<"/", "pkg">>
  /\ res.stack = <<THIS_FILE, WISP_FILE, NODE_TASK_FRAME, Absent, THIS_FILE, USER_FILE_URL>>
  /\ res.out = USER_FILE

Ancestors(start) == {SubSeq(start, 1, k) : k \in 1..Len(start)}

Nearest(D) == CHOOSE d \in D : \A e \in D : Len(e) <= Len(d)

\* C27: findPackageRoot returns the nearest directory, from the start up
\* to and including the filesystem root, that holds package.json, and null
\* only when there is none.
C27_NearestManifestUpToRoot ==
  res.mode = "findPackageRoot"
    => res.out = IF Ancestors(res.rel) \cap manifests = {} THEN Absent
                 ELSE Nearest(Ancestors(res.rel) \cap manifests)

\* C21: when the base option is supplied and the input is a relative
\* string, wisp and wispSync load the input resolved against base, and the
\* call never samples the call stack.
C21_BaseOverridesCaller ==
  \A i \in Idx :
    (req.base # Absent /\ RelativeInput)
      => /\ calls[i].targets[1] = newURL(req.input, req.base)
         /\ calls[i].sampled = 0

C21_Witness ==
  /\ req.base # Absent /\ RelativeInput
  /\ \E i \in Idx : \E j \in Idx :
       /\ calls[i].api = "wisp" /\ calls[j].api = "wispSync"
       /\ calls[i].pc = "done" /\ calls[j].pc = "done"
       /\ calls[i].targets = <<pathToFileURL(BasedPath)>>
       /\ calls[j].targets = <<pathToFileURL(BasedPath)>>

\* the locations a retry of the call can load: the fallback reference
\* itself when it is absolute, the reference against the base of the call
\* when there is one, else against the directory of a frame the resolver
\* can select
RetryLocations(c) ==
  IF isAbsolute(req.fallback) THEN {pathToFileURL(req.fallback)}
  ELSE IF req.base # Absent THEN {newURL(req.fallback, req.base)}
  ELSE {pathToFileURL(pathResolve(d, req.fallback)) : d \in {dirname(Head(c.frames)), LibrarySrcDir}}

\* C30: the retry of wisp and wispSync runs with the options of the
\* original call: it loads the fallback reference under the same base,
\* applies the same validate, and on a read failure retries the fallback
\* reference again, which is the reference it was itself loading.
C30_RetryKeepsOptions ==
  \A i \in Idx :
    req.fallback # Absent
      => /\ \A k \in 2..Len(calls[i].targets) :
              calls[i].targets[k] \in RetryLocations(calls[i])
         /\ \A k \in 1..Len(calls[i].log) :
              (calls[i].log[k].ev = "readErr" /\ calls[i].log[k].d >= 1)
                => /\ k < Len(calls[i].log)
                   /\ calls[i].log[k + 1].ev = "fallback"
                   /\ calls[i].log[k + 1].d = calls[i].log[k].d + 1
         /\ \A k \in 1..Len(calls[i].log) :
              (calls[i].log[k].ev \in {"withOk", "assertOk", "readOk"}
                 /\ calls[i].log[k].d >= 1 /\ req.validate # "none")
                => /\ k > 1
                   /\ calls[i].log[k - 1] = EvInfo("validate", [depth |-> calls[i].log[k].d], "returned")

C30_Witness ==
  \E i \in Idx :
    /\ calls[i].api = "wispSync" /\ req.fallback = FallbackPath
    /\ Len(calls[i].targets) >= 3
    /\ calls[i].targets[3] = calls[i].targets[2]
    /\ \E k \in 1..Len(calls[i].log) : calls[i].log[k].ev = "readErr" /\ calls[i].log[k].d = 1

\* C28: with wisp calls in flight and interleaved at their suspension
\* points, Error.prepareStackTrace holds its original value whenever
\* control is outside getStack: no step of any call leaves it changed.
C28_HookKeepsOriginalValue == [][hook' = hook]_vars

\* two calls pending at once, each of which has sampled the stack, one of
\* them again after it was resumed
C28_Witness ==
  \E i \in Idx : \E j \in Idx :
    /\ i # j
    /\ ~Finished(calls[i]) /\ ~Finished(calls[j])
    /\ calls[i].depth >= 1 /\ calls[i].sampled >= 2
    /\ calls[j].depth = 0 /\ calls[j].sampled >= 1
    /\ hook = "userHook"

\* C29: two loads of the same reference by wisp share no cache: the value
\* a load returns is the content its target holds at the time of that load.
C29_LoadReflectsCurrentContent ==
  [][\A i \in Idx :
       (calls[i].pc # "done" /\ calls'[i].pc = "done")
         => calls'[i].value = [foo |-> contentAt(fileURLToPath(calls[i].url)).foo]]_vars

\* C31: the package boundary is computed once and never changes: no step
\* of the resolver, and no package.json written or removed afterwards,
\* changes the value the primary selector reads.
C31_PackageRootNeverChanges == [][PACKAGE_ROOT' = PACKAGE_ROOT]_vars

\* the selector has run where a new lookup would find another boundary
C31_Witness ==
  /\ res.mode = "pickPrimary" /\ res.stack = <<THIS_FILE, DIST_FILE, USER_FILE>>
  /\ PACKAGE_ROOT = <<"/", "pkg">> /\ findPackageRoot(THIS_FILE) = Absent
  /\ res.out = USER_FILE

\* the text of the input of the calls
InputText == StringOf(req.input)

\* the input is handed to caller-relative resolution
SamplesStack ==
  /\ ~instanceofURL(req.input)
  /\ ~startsWithFileScheme(InputText) /\ ~isAbsolute(InputText)
  /\ req.base = Absent

\* the reference against the directory of a frame the resolver can select
CallerLocations(c, ref) ==
  {pathToFileURL(pathResolve(d, ref)) : d \in {dirname(Head(c.frames)), LibrarySrcDir}}

\* the location the first matching rule gives for the input of the calls
ExpectedLocations(c) ==
  IF instanceofURL(req.input) THEN {Tail(req.input)}
  ELSE IF startsWithFileScheme(InputText) THEN {InputText}
  ELSE IF isAbsolute(InputText) THEN {pathToFileURL(InputText)}
  ELSE IF req.base # Absent THEN {newURL(InputText, req.base)}
  ELSE CallerLocations(c, InputText)

\* C32: wisp and wispSync choose the location by the first matching rule
\* (URL object, file:// string, absolute path, base, caller-relative), both
\* choose the same location, and the stack is sampled only in the last case.
C32_LocationByFirstRule ==
  \A i \in Idx : \A j \in Idx :
    /\ Len(calls[i].targets) >= 1 => calls[i].targets[1] \in ExpectedLocations(calls[i])
    /\ Len(calls[i].targets) = 1 => ((calls[i].sampled > 0) <=> SamplesStack)
    /\ (calls[i].api = "wisp" /\ calls[j].api = "wispSync")
         => /\ (calls[i].targets = <<>>) <=> (calls[j].targets = <<>>)
            /\ calls[i].targets # <<>> => calls[i].targets[1] = calls[j].targets[1]

C32_Witness ==
  /\ req.input = PrimaryPath /\ req.base = BASE_URL
  /\ \E i \in Idx : \E j \in Idx :
       /\ calls[i].api = "wisp" /\ calls[j].api = "wispSync"
       /\ calls[i].targets[1] = pathToFileURL(PrimaryPath)
       /\ calls[j].targets[1] = pathToFileURL(PrimaryPath)
       /\ calls[i].sampled = 0 /\ calls[j].sampled = 0

\* computing the location of the reference throws: a file:// string that
\* is no URL, or a relative string with a base that is no URL
LocationFails(ref) ==
  /\ ~instanceofURL(ref)
  /\ \/ startsWithFileScheme(StringOf(ref)) /\ ~urlParses(StringOf(ref))
     \/ /\ ~startsWithFileScheme(StringOf(ref)) /\ ~isAbsolute(StringOf(ref))
        /\ req.base # Absent /\ ~urlParses(req.base)

\* C33: a failure while computing the location is raised before any
\* loading strategy is attempted and is never redirected to the fallback
\* reference, in the first invocation and in a retry.
C33_LocationFailureIsRaised ==
  \A i \in Idx :
    /\ LocationFails(req.input)
         => /\ calls[i].pc = "failed" /\ calls[i].err = INVALID_URL
            /\ calls[i].log = <<>> /\ calls[i].targets = <<>>
    /\ (calls[i].depth >= 1 /\ calls[i].pc # "sync" /\ LocationFails(req.fallback))
         => /\ calls[i].pc = "failed" /\ calls[i].err = INVALID_URL
            /\ calls[i].depth = 1 /\ Len(calls[i].targets) = 1
            /\ calls[i].log[Len(calls[i].log)].ev = "fallback"

C33_Witness ==
  /\ req.fallback = FallbackPath /\ fs[FallbackPath] = DocBaz
  /\ LocationFails(req.input)
  /\ \E i \in Idx : \E j \in Idx :
       /\ calls[i].api = "wisp" /\ calls[j].api = "wispSync"
       /\ calls[i].pc = "failed" /\ calls[j].pc = "failed"

\* C34: an input that is neither a string nor a URL object is coerced
\* with String() and loaded as a reference: the TypeError of the resolver
\* is never the outcome of a call of the loader.
C34_NonStringInputIsCoerced ==
  \A i \in Idx :
    /\ calls[i].err # REL_MUST_BE_STRING
    /\ (~instanceofURL(req.input) /\ ~typeofString(req.input) /\ ~LocationFails(req.input))
         => /\ Len(calls[i].targets) >= 1
            /\ calls[i].targets[1] \in ExpectedLocations(calls[i])
            /\ calls[i].log # <<>>

C34_Witness ==
  /\ req.input = NUMBER_REF /\ req.base = Absent /\ req.fallback = Absent
  /\ \E i \in Idx : \E j \in Idx :
       /\ calls[i].api = "wisp" /\ calls[j].api = "wispSync"
       /\ calls[i].pc = "failed" /\ calls[j].pc = "failed"
       /\ calls[i].targets[1] \in CallerLocations(calls[i], <<"42">>)
       /\ calls[i].err = LoadFailedMsg(calls[i].targets[1], <<"ENOENT">>)

====
